---- MODULE Spec2Model ----
(***************************************************************************)
(* Model of script/recurrent_prediction.py (get_true_pred_recurrent,       *)
(* get_block_temperature_recurrent) and script/training.py                 *)
(* (calculate_test_loss, train).                                           *)
(*                                                                         *)
(* Tensors are sequences: a vector is a sequence of integers, a window is  *)
(* a sequence of rows.  Python exceptions are recorded in err by kind:     *)
(* torch.cat's size error is "ShapeMismatch", an index error of a tensor   *)
(* is "IndexOutOfRange", optuna's TrialPruned is "Pruned".                 *)
(***************************************************************************)
EXTENDS Integers, Sequences, FiniteSets, TLC

\* ---------------------------------------------------------------- bounds
MaxN == 3          \* longest source
MaxL == 2          \* longest window
MaxP == 2          \* widest Predictor output / most prediction columns
MaxSeed == 1       \* source items are generated from seeds 0..MaxSeed
MaxEpochs == 3     \* largest num_epochs
MaxBatches == 2    \* most batches of a loader
MaxFreq == 2       \* largest epoch_freq

\* ------------------------------------------------------ program constants
NumExog == 2       \* x[-1,-2:]: the last 2 columns are exogenous

\* unscale_temperature of the dataset module: an affine map back to degrees
ScaleStd == 3
ScaleMean == 20

VARIABLES
    entry,          \* which function the caller runs: "rollout" or "train"
    pc,             \* position in the running function
    err,            \* kind of the exception that ended the run, or "none"
    \* --- recurrent_prediction.py
    source,         \* test_dataset: sequence of [win, tgt]
    P,              \* width of the Predictor's output
    pk,             \* which Predictor (model) is passed in
    block_number,   \* argument of get_block_temperature_recurrent
    i,              \* loop variable of get_true_pred_recurrent
    seq,            \* the maintained window
    prediction,     \* the last raw output of the Predictor
    y_true, y_pred, \* the two result lists
    gradEnabled,    \* torch's gradient mode (torch.is_grad_enabled())
    calls,          \* history: every Predictor invocation [in, out, grad]
    trace,          \* history: <<"read", idx>> and <<"infer", idx>> in execution order
    j,              \* loop variable of get_block_temperature_recurrent
    y_block_true, y_block_pred,
    \* --- training.py
    num_epochs, epoch_freq, hasScheduler, hasTrial,
    plot_progress, print_progress,
    nTrain, nVal,   \* number of batches of train_loader / val_loader
    epoch,          \* loop variable of train
    tb, vb,         \* batches consumed in the current phase
    train_loss, val_loss,
    train_losses, val_losses,
    params,         \* the model's parameters: number of updates applied
    training,       \* model.training (train()/eval() mode)
    optSteps,       \* history: <<epoch, phase>> of every optimizer.step
    trainBatches,   \* history: epoch of every training batch run
    schedCalls,     \* history: arguments of scheduler.step
    reports,        \* history: arguments of trial.report
    pruneCalls,     \* history: [epoch, result] of trial.should_prune()
    phases          \* history: <<epoch, phase>> in execution order

rvars == <<source, P, pk, block_number, i, seq, prediction, y_true, y_pred,
           calls, trace, j, y_block_true, y_block_pred>>
tvars == <<num_epochs, epoch_freq, hasScheduler, hasTrial, plot_progress,
           print_progress, nTrain, nVal, epoch, tb, vb, train_loss, val_loss,
           train_losses, val_losses, params, training, optSteps, trainBatches,
           schedCalls, reports, pruneCalls, phases>>
vars == <<entry, pc, err, gradEnabled, rvars, tvars>>

\* ------------------------------------------------------------ tensor ops
Max(a, b) == IF a >= b THEN a ELSE b
Min(a, b) == IF a <= b THEN a ELSE b

RECURSIVE SumSeq(_)
SumSeq(s) == IF s = <<>> THEN 0 ELSE Head(s) + SumSeq(Tail(s))

\* v[-k:] of a 1-D tensor: the last k elements (all of them if fewer)
LastCols(v, k) == SubSeq(v, Max(1, Len(v) - k + 1), Len(v))

\* what is left of v in front of v[-k:]
AllButLast(v, k) == SubSeq(v, 1, Len(v) - k)

\* x[-1]: the final row of a window
FinalRow(x) == x[Len(x)]

\* v[k] for a Python index k on a tensor of n elements: defined for
\* -n <= k < n, a negative k counting from the end
PyIndexOK(v, k) == k >= -Len(v) /\ k < Len(v)
PyIndex(v, k) == IF k >= 0 THEN v[k + 1] ELSE v[Len(v) + k + 1]

\* unscale_temperature: normalized -> physical units, element-wise
Unscale(v) == [k \in DOMAIN v |-> v[k] * ScaleStd + ScaleMean]

\* ------------------------------------------------------------ the source
\* One item of the source: an L x w window and a target of length B.
\* Cell values differ by seed, row and column, so that a wrong row, a wrong
\* column or a wrong index shows.
Item(s, L, w, B) ==
    [win |-> [r \in 1..L |-> [c \in 1..w |-> 10 * s + 3 * r + c]],
     tgt |-> [b \in 1..B |-> 40 + 5 * s + b]]

\* Width of window_i relative to window_0.  Every row carries the exogenous
\* columns, so a window is at least NumExog wide.
WidthDeltas == {-1, 0, 1}

\* The sources of length 0..MaxN: consecutive items take consecutive seeds,
\* window_0 fixes the width W, every later window deviates by one of WidthDeltas
Sources(L, W) ==
    UNION { { [k \in 1..n |-> Item((s0 + k - 1) % (MaxSeed + 1), L, W + dl[k],
                                   W - NumExog)] :
                s0 \in 0..MaxSeed,
                dl \in { f \in [1..n -> WidthDeltas] : n > 0 => f[1] = 0 } }
            : n \in 0..MaxN }

N == Len(source)
L0 == Len(source[1].win)
W0 == Len(source[1].win[1])
B0 == Len(source[1].tgt)

\* test_dataset[idx]: defined for 0 <= idx < len(test_dataset); an index
\* outside fails, and index 0 of an empty source fails as EmptySource
SourceHas(src, idx) == idx >= 0 /\ idx < Len(src)
SourceGet(src, idx) == src[idx + 1]
SourceError(src, idx) == IF Len(src) = 0 THEN "EmptySource" ELSE "IndexOutOfRange"

\* ---------------------------------------------------------- the Predictor
PredictorKinds == {"echo", "sum"}

\* model(seq.unsqueeze(0)).squeeze(0): a stateless function of the window.
\* "echo" returns a fixed vector; "sum" depends on the first and the final
\* row of the window, so that a wrong slide changes its output.
Model(kind, width, window) ==
    IF kind = "echo"
    THEN [b \in 1..width |-> 60 + b]
    ELSE [b \in 1..width |-> 70 + b + SumSeq(FinalRow(window)) + window[1][1]]

\* ------------------------------------------------- get_true_pred_recurrent
\* line 29: nothing catches what test_dataset[0] raises; it reaches the caller
SwallowSourceError(kind) == [pc |-> "block_loop", err |-> "none"]
OnSourceError(kind) == [pc |-> "rollout_failed", err |-> kind]

\* y_true += [unscale_temperature(y)], y_pred += [unscale_temperature(prediction)]
RecordRaw(list, v) == Append(list, v)
Record(list, v) == Append(list, Unscale(v))

\* new_row = torch.cat((prediction, x[-1,-2:]))
NewRowTeacherForced(pred, x) ==
    AllButLast(FinalRow(x), NumExog) \o LastCols(FinalRow(x), NumExog)
NewRowFirstRow(pred, x) == pred \o LastCols(x[1], NumExog)
NewRow(pred, x) == pred \o LastCols(FinalRow(x), NumExog)

\* torch.cat((seq[1:, :], new_row), axis=0) needs equal widths
CatOK(window, row) == Len(window[1]) = Len(row)
SlideNoDrop(window, row) == window \o <<row>>
SlidePrepend(window, row) == <<row>> \o SubSeq(window, 1, Len(window) - 1)
Slide(window, row) == Tail(window) \o <<row>>

\* line 36: the window of step 0 is seq as read from test_dataset[0]
Step0WindowSlid(x) == Tail(x) \o <<x[1]>>
Step0Window(x) == x

\* line 48 rebinds seq to the tensor torch.cat allocates; the tensor that
\* test_dataset[0] returned is not written
SourceSlidInPlace(src, window) == [src EXCEPT ![1].win = window]
SourceAfterSlide(src, window) == src

\* line 40: for i in range(1, len(test_dataset))
NextIndexSkipping(idx) == idx + 2
NextIndex(idx) == idx + 1

Init ==
    /\ entry \in {"rollout", "train"}
    /\ err = "none"
    /\ gradEnabled = TRUE
    /\ i = 0 /\ seq = <<>> /\ prediction = <<>>
    /\ y_true = <<>> /\ y_pred = <<>> /\ calls = <<>> /\ trace = <<>>
    /\ j = 0 /\ y_block_true = <<>> /\ y_block_pred = <<>>
    /\ epoch = 0 /\ tb = 0 /\ vb = 0 /\ train_loss = 0 /\ val_loss = 0
    /\ train_losses = <<>> /\ val_losses = <<>>
    /\ params = 0 /\ training = TRUE
    /\ optSteps = <<>> /\ trainBatches = <<>> /\ schedCalls = <<>>
    /\ reports = <<>> /\ pruneCalls = <<>> /\ phases = <<>>
    /\ IF entry = "rollout"
       THEN /\ pc = "block_call"
            /\ \E L \in 1..MaxL, W \in (NumExog + 1)..(NumExog + MaxP) :
                   source \in Sources(L, W)
            /\ P \in 1..MaxP
            /\ pk \in PredictorKinds
            /\ block_number \in (-MaxP)..(MaxP + 1)
            /\ num_epochs = 0 /\ epoch_freq = 1
            /\ hasScheduler = FALSE /\ hasTrial = FALSE
            /\ plot_progress = FALSE /\ print_progress = FALSE
            /\ nTrain = 1 /\ nVal = 1
       ELSE /\ pc = "train_epoch"
            /\ source = <<>> /\ P = 1 /\ pk = "echo" /\ block_number = 1
            /\ num_epochs \in 0..MaxEpochs
            /\ epoch_freq \in 1..MaxFreq
            /\ hasScheduler \in BOOLEAN /\ hasTrial \in BOOLEAN
            /\ plot_progress \in BOOLEAN /\ print_progress \in BOOLEAN
            /\ nTrain \in 1..MaxBatches /\ nVal \in 1..MaxBatches

\* lines 29-39: step 0, then entering torch.no_grad()
RolloutStep0 ==
    /\ pc = "block_call"
    /\ IF ~SourceHas(source, 0)
       THEN /\ pc' = OnSourceError(SourceError(source, 0)).pc
            /\ err' = OnSourceError(SourceError(source, 0)).err
            /\ UNCHANGED <<gradEnabled, rvars>>
       ELSE LET item == SourceGet(source, 0)
                fed == Step0Window(item.win)
                out == Model(pk, P, fed)
            IN  /\ seq' = item.win
                /\ y_true' = Record(<<>>, item.tgt)
                /\ prediction' = out
                /\ calls' = <<[in |-> fed, out |-> out, grad |-> gradEnabled]>>
                /\ trace' = <<<<"read", 0>>, <<"infer", 0>>>>
                /\ y_pred' = Record(<<>>, out)
                /\ gradEnabled' = FALSE
                /\ i' = 1
                /\ pc' = "rollout_loop"
                /\ UNCHANGED <<err, source, P, pk, block_number, j,
                               y_block_true, y_block_pred>>
    /\ UNCHANGED <<entry, tvars>>

\* lines 40-52: one iteration of the loop
RolloutStep ==
    /\ pc = "rollout_loop"
    /\ i < N
    /\ LET item == SourceGet(source, i)
           new_row == NewRow(prediction, item.win)
       IN  IF ~CatOK(seq, new_row)
           THEN /\ pc' = "rollout_failed"
                /\ err' = "ShapeMismatch"
                /\ gradEnabled' = TRUE
                /\ y_true' = Record(y_true, item.tgt)
                /\ trace' = Append(trace, <<"read", i>>)
                /\ UNCHANGED <<source, seq, prediction, calls, y_pred, i>>
           ELSE LET window == Slide(seq, new_row)
                    out == Model(pk, P, window)
                IN  /\ y_true' = Record(y_true, item.tgt)
                    /\ seq' = window
                    /\ source' = SourceAfterSlide(source, window)
                    /\ prediction' = out
                    /\ calls' = Append(calls, [in |-> window, out |-> out,
                                               grad |-> gradEnabled])
                    /\ trace' = trace \o <<<<"read", i>>, <<"infer", i>>>>
                    /\ y_pred' = Record(y_pred, out)
                    /\ i' = NextIndex(i)
                    /\ UNCHANGED <<pc, err, gradEnabled>>
    /\ UNCHANGED <<entry, P, pk, block_number, j, y_block_true,
                   y_block_pred, tvars>>

\* line 54 (leaving torch.no_grad()) and the caller's line 81
RolloutReturn ==
    /\ pc = "rollout_loop"
    /\ i >= N
    /\ gradEnabled' = TRUE
    /\ j' = 0
    /\ pc' = "block_loop"
    /\ UNCHANGED <<entry, err, source, P, pk, block_number, i, seq, prediction,
                   y_true, y_pred, calls, trace, y_block_true, y_block_pred,
                   tvars>>

\* ----------------------------------------- get_block_temperature_recurrent
\* the position indexed in each vector
BlockIndexOffByOne(b) == b
BlockIndex(b) == b - 1

\* lines 83-85: one iteration; the index error of either vector ends the call
BlockStep ==
    /\ pc = "block_loop"
    /\ j < Len(y_true)
    /\ LET k == BlockIndex(block_number)
       IN  IF PyIndexOK(y_true[j + 1], k) /\ PyIndexOK(y_pred[j + 1], k)
           THEN /\ y_block_true' = Append(y_block_true, PyIndex(y_true[j + 1], k))
                /\ y_block_pred' = Append(y_block_pred, PyIndex(y_pred[j + 1], k))
                /\ j' = j + 1
                /\ UNCHANGED <<pc, err>>
           ELSE /\ pc' = "block_failed"
                /\ err' = "IndexOutOfRange"
                /\ y_block_true' = IF PyIndexOK(y_true[j + 1], k)
                                   THEN Append(y_block_true, PyIndex(y_true[j + 1], k))
                                   ELSE y_block_true
                /\ UNCHANGED <<y_block_pred, j>>
    /\ UNCHANGED <<entry, gradEnabled, source, P, pk, block_number, i, seq,
                   prediction, y_true, y_pred, calls, trace, tvars>>

\* line 86
BlockReturn ==
    /\ pc = "block_loop"
    /\ j >= Len(y_true)
    /\ pc' = "block_done"
    /\ UNCHANGED <<entry, err, gradEnabled, rvars, tvars>>

\* ------------------------------------------------------------- training
\* The loaders: batch k of a loader of n batches has 2 examples, the last
\* batch 1 (a short final batch); len(loader.dataset) is their sum.
BatchSize(n, k) == IF k < n THEN 2 ELSE 1
DatasetLen(n) == 2 * (n - 1) + 1

\* loss.item() of criterion(model(x), y) on batch k under parameters p:
\* training batches and validation batches are different data
TrainLossItem(p, k) == 20 - Min(p, 12) + k
ValLossItem(p, k) == 30 - Min(p, 12) + 2 * k

\* a mean kept exact: the accumulated sum over the example count
Mean(total, count) == [num |-> total, den |-> count]

\* lines 37-41: calculate_test_loss calls neither backward nor
\* optimizer.step; the parameters after a validation batch are those before
ValBatchParamsStepped(p) == p + 1
ValBatchParams(p) == p

\* line 102: scheduler.step(val_loss), val_loss being the sum that
\* calculate_test_loss returned, not yet divided (line 104 comes after)
SchedulerMetricDivided(total, count) == total \div count
SchedulerMetric(total, count) == total

\* line 109: trial.report(val_loss, epoch), epoch counting from 1
ReportArgsZeroBased(losses, e) == [value |-> losses[Len(losses)], epoch |-> e - 1]
ReportArgs(losses, e) == [value |-> losses[Len(losses)], epoch |-> e]

\* line 114: if epoch % epoch_freq == 0
PeriodicDueAlways(e, freq) == TRUE
PeriodicDue(e, freq) == e % freq = 0

\* line 111-112: raise TrialPruned when the trial says so
AfterPruneCheckIgnored(prune) == "train_periodic"
AfterPruneCheck(prune) == IF prune THEN "pruned" ELSE "train_periodic"

\* line 78: the next epoch begins (lines 79-80) ...
EpochBegin ==
    /\ pc = "train_epoch"
    /\ epoch < num_epochs
    /\ epoch' = epoch + 1
    /\ train_loss' = 0
    /\ training' = TRUE
    /\ tb' = 0
    /\ phases' = Append(phases, <<epoch + 1, "training">>)
    /\ pc' = "train_batch"
    /\ UNCHANGED <<entry, err, gradEnabled, rvars, num_epochs, epoch_freq,
                   hasScheduler, hasTrial, plot_progress, print_progress,
                   nTrain, nVal, vb, val_loss, train_losses, val_losses, params,
                   optSteps, trainBatches, schedCalls, reports, pruneCalls>>

\* ... or the range is exhausted and train returns
TrainCompleted ==
    /\ pc = "train_epoch"
    /\ epoch >= num_epochs
    /\ pc' = "completed"
    /\ UNCHANGED <<entry, err, gradEnabled, rvars, tvars>>

\* lines 81-93: one training batch
TrainBatch ==
    /\ pc = "train_batch"
    /\ tb < nTrain
    /\ LET k == tb + 1
           loss == TrainLossItem(params, k)
       IN  /\ params' = params + 1
           /\ optSteps' = Append(optSteps, <<epoch, "training">>)
           /\ train_loss' = train_loss + loss * BatchSize(nTrain, k)
           /\ trainBatches' = Append(trainBatches, epoch)
           /\ tb' = k
    /\ UNCHANGED <<entry, pc, err, gradEnabled, rvars, num_epochs, epoch_freq,
                   hasScheduler, hasTrial, plot_progress, print_progress,
                   nTrain, nVal, epoch, vb, val_loss, train_losses, val_losses,
                   training, schedCalls, reports, pruneCalls, phases>>

\* lines 96-97, then the call of line 99 enters calculate_test_loss (30-31)
TrainEpochLoss ==
    /\ pc = "train_batch"
    /\ tb >= nTrain
    /\ train_losses' = Append(train_losses, Mean(train_loss, DatasetLen(nTrain)))
    /\ training' = FALSE
    /\ val_loss' = 0
    /\ vb' = 0
    /\ phases' = Append(phases, <<epoch, "validation">>)
    /\ pc' = "train_val"
    /\ UNCHANGED <<entry, err, gradEnabled, rvars, num_epochs, epoch_freq,
                   hasScheduler, hasTrial, plot_progress, print_progress,
                   nTrain, nVal, epoch, tb, train_loss, val_losses, params,
                   optSteps, trainBatches, schedCalls, reports, pruneCalls>>

\* lines 33-41: one validation batch, inside torch.no_grad()
ValBatch ==
    /\ pc = "train_val"
    /\ vb < nVal
    /\ LET k == vb + 1
           loss == ValLossItem(params, k)
       IN  /\ val_loss' = val_loss + loss * BatchSize(nVal, k)
           /\ params' = ValBatchParams(params)
           /\ vb' = k
    /\ UNCHANGED <<entry, pc, err, gradEnabled, rvars, num_epochs, epoch_freq,
                   hasScheduler, hasTrial, plot_progress, print_progress,
                   nTrain, nVal, epoch, tb, train_loss, train_losses,
                   val_losses, training, optSteps, trainBatches,
                   schedCalls, reports, pruneCalls, phases>>

\* line 43: calculate_test_loss returns the accumulated sum to line 99
ValReturn ==
    /\ pc = "train_val"
    /\ vb >= nVal
    /\ pc' = "train_sched"
    /\ UNCHANGED <<entry, err, gradEnabled, rvars, tvars>>

\* lines 101-102
SchedulerStep ==
    /\ pc = "train_sched"
    /\ IF hasScheduler
       THEN /\ schedCalls' = Append(schedCalls, [epoch |-> epoch,
                      metric |-> SchedulerMetric(val_loss, DatasetLen(nVal))])
            /\ phases' = Append(phases, <<epoch, "scheduler">>)
       ELSE UNCHANGED <<schedCalls, phases>>
    /\ pc' = "train_valrec"
    /\ UNCHANGED <<entry, err, gradEnabled, rvars, num_epochs, epoch_freq,
                   hasScheduler, hasTrial, plot_progress, print_progress,
                   nTrain, nVal, epoch, tb, vb, train_loss, val_loss,
                   train_losses, val_losses, params, training, optSteps,
                   trainBatches, reports, pruneCalls>>

\* lines 104-105, and the test of line 107
ValRecord ==
    /\ pc = "train_valrec"
    /\ val_losses' = Append(val_losses, Mean(val_loss, DatasetLen(nVal)))
    /\ pc' = IF hasTrial THEN "train_trial" ELSE "train_periodic"
    /\ UNCHANGED <<entry, err, gradEnabled, rvars, num_epochs, epoch_freq,
                   hasScheduler, hasTrial, plot_progress, print_progress,
                   nTrain, nVal, epoch, tb, vb, train_loss, val_loss,
                   train_losses, params, training, optSteps, trainBatches,
                   schedCalls, reports, pruneCalls, phases>>

\* line 109
TrialReport ==
    /\ pc = "train_trial"
    /\ reports' = Append(reports, ReportArgs(val_losses, epoch))
    /\ phases' = Append(phases, <<epoch, "report">>)
    /\ pc' = "train_prune"
    /\ UNCHANGED <<entry, err, gradEnabled, rvars, num_epochs, epoch_freq,
                   hasScheduler, hasTrial, plot_progress, print_progress,
                   nTrain, nVal, epoch, tb, vb, train_loss, val_loss,
                   train_losses, val_losses, params, training, optSteps,
                   trainBatches, schedCalls, pruneCalls>>

\* lines 111-112: the trial decides; TrialPruned leaves train
PruneCheck ==
    /\ pc = "train_prune"
    /\ \E prune \in BOOLEAN :
        /\ pruneCalls' = Append(pruneCalls, [epoch |-> epoch, result |-> prune])
        /\ pc' = AfterPruneCheck(prune)
        /\ err' = IF AfterPruneCheck(prune) = "pruned" THEN "Pruned" ELSE err
    /\ phases' = Append(phases, <<epoch, "prune_check">>)
    /\ UNCHANGED <<entry, gradEnabled, rvars, num_epochs, epoch_freq,
                   hasScheduler, hasTrial, plot_progress, print_progress,
                   nTrain, nVal, epoch, tb, vb, train_loss, val_loss,
                   train_losses, val_losses, params, training, optSteps,
                   trainBatches, schedCalls, reports>>

\* lines 114-118
PeriodicReport ==
    /\ pc = "train_periodic"
    /\ phases' = IF PeriodicDue(epoch, epoch_freq)
                 THEN Append(phases, <<epoch, "periodic">>)
                 ELSE phases
    /\ pc' = "train_epoch"
    /\ UNCHANGED <<entry, err, gradEnabled, rvars, num_epochs, epoch_freq,
                   hasScheduler, hasTrial, plot_progress, print_progress,
                   nTrain, nVal, epoch, tb, vb, train_loss, val_loss,
                   train_losses, val_losses, params, training, optSteps,
                   trainBatches, schedCalls, reports, pruneCalls>>

Next ==
    \/ RolloutStep0
    \/ RolloutStep
    \/ RolloutReturn
    \/ BlockStep
    \/ BlockReturn
    \/ EpochBegin
    \/ TrainCompleted
    \/ TrainBatch
    \/ TrainEpochLoss
    \/ ValBatch
    \/ ValReturn
    \/ SchedulerStep
    \/ ValRecord
    \/ TrialReport
    \/ PruneCheck
    \/ PeriodicReport

Spec == Init /\ [][Next]_vars
\* ============================================================ properties
RolloutReturned == pc \in {"block_loop", "block_done", "block_failed"}

\* the Predictor's output width and every window's width fit window_0
ShapesMatch ==
    /\ P = W0 - NumExog
    /\ \A k \in 1..N : Len(source[k].win[1]) = W0

\* C1: at every step i >= 1 the prediction columns (all but the last 2) of
\* the row appended to the window fed to the Predictor are prediction_{i-1},
\* the Predictor's raw output of the step before; they are neither
\* target_{i-1} nor the prediction columns of the source's window_i when
\* those differ from it.
C1_PredictionFedBack ==
    \A k \in 2..Len(calls) :
        LET fed == AllButLast(FinalRow(calls[k].in), NumExog)
            prev == calls[k - 1].out
        IN  /\ fed = prev
            /\ source[k - 1].tgt # prev => fed # source[k - 1].tgt
            /\ AllButLast(FinalRow(source[k].win), NumExog) # prev
                 => fed # AllButLast(FinalRow(source[k].win), NumExog)

C1_Witness ==
    /\ Len(calls) >= 3
    /\ calls[2].out # source[2].tgt
    /\ calls[2].out # AllButLast(FinalRow(source[3].win), NumExog)
    /\ Len(calls[2].out) = MaxP

\* C2: for a source of length N >= 1 and matching shapes the rollout returns,
\* and both returned lists have exactly N elements, element i being
\* unscale(target_i) and unscale(prediction_i) in source order.
C2_ResultSequence ==
    /\ RolloutReturned =>
          /\ Len(y_true) = N
          /\ Len(y_pred) = N
          /\ \A k \in 1..N : /\ y_true[k] = Unscale(source[k].tgt)
                             /\ y_pred[k] = Unscale(calls[k].out)
    /\ (entry = "rollout" /\ N >= 1 /\ ShapesMatch) => pc # "rollout_failed"

C2_Witness ==
    /\ RolloutReturned
    /\ N = MaxN
    /\ ShapesMatch
    /\ y_pred[N] # calls[N].out

\* C3: at every step i >= 1 the last 2 columns of the appended row are the
\* last 2 columns of the final row of the source's window_i, the window
\* read at that same index.
C3_ExogenousFromSource ==
    \A k \in 2..Len(calls) :
        LastCols(FinalRow(calls[k].in), NumExog)
            = LastCols(FinalRow(source[k].win), NumExog)

C3_Witness ==
    /\ Len(calls) >= 3
    /\ L0 >= 2
    /\ LastCols(FinalRow(source[3].win), NumExog)
         # LastCols(FinalRow(source[2].win), NumExog)
    /\ LastCols(FinalRow(calls[3].in), NumExog)
         # LastCols(source[3].win[1], NumExog)

C5_OutOfRangeNeverReturns ==
    pc = "block_done" => (block_number >= 1 /\ block_number <= B0)

\* C6: for 1 <= b <= B the extractor returns two series of length N with
\* true-series[i] = result[i].true[b-1] and pred-series[i] =
\* result[i].pred[b-1]; on a Result Sequence whose vectors all have length B
\* it does not fail.
C6_BlockSeries ==
    /\ (pc = "block_done" /\ block_number >= 1 /\ block_number <= B0) =>
          /\ Len(y_block_true) = N
          /\ Len(y_block_pred) = N
          /\ \A k \in 1..N : /\ y_block_true[k] = y_true[k][block_number]
                             /\ y_block_pred[k] = y_pred[k][block_number]
    /\ pc = "block_failed" =>
          ~(block_number >= 1 /\ block_number <= B0 /\ P = B0)

C6_Witness ==
    /\ pc = "block_done"
    /\ N = MaxN
    /\ B0 >= 2
    /\ block_number = B0
    /\ y_block_true[N] = y_true[N][B0]
    /\ y_block_true[N] # y_true[N][1]

\* C7 (as claimed): whenever the Predictor's output width differs from
\* W - 2 the rollout fails, for every N >= 1, N = 1 included.
C7_WidthMismatchAlwaysFails ==
    (entry = "rollout" /\ N >= 1 /\ P # W0 - NumExog) => ~RolloutReturned

\* C8 (as claimed): a window_i (i >= 1) whose width differs from that of
\* window_0 is never accepted by a step.
C8_WindowWidthChecked ==
    \A k \in 2..Len(calls) : Len(source[k].win[1]) = W0

\* C9 (as claimed): every Predictor invocation of a rollout, step 0
\* included, runs with gradient tracking disabled, and no parameter is
\* updated during the rollout.
C9_AllInferenceNoGrad ==
    entry = "rollout" =>
        /\ \A k \in 1..Len(calls) : calls[k].grad = FALSE
        /\ params = 0

\* C10: if should_prune() first returns true at epoch e, train raises Pruned
\* during epoch e, no training batch of a later epoch runs, and the training
\* loss history holds exactly e entries.
C10_PruneStopsAtEpoch ==
    \A k \in 1..Len(pruneCalls) :
        pruneCalls[k].result =>
            LET e == pruneCalls[k].epoch
            IN  /\ k = Len(pruneCalls)
                /\ e >= 1 /\ e <= num_epochs
                /\ pc = "pruned"
                /\ err = "Pruned"
                /\ epoch = e
                /\ Len(train_losses) = e
                /\ \A m \in 1..Len(trainBatches) : trainBatches[m] <= e
                /\ Len(trainBatches) = e * nTrain

C10_Witness ==
    /\ pc = "pruned"
    /\ Len(pruneCalls) = 2
    /\ pruneCalls[2].result
    /\ ~pruneCalls[1].result
    /\ Len(train_losses) = 2
    /\ num_epochs > 2
\* C11: at every step the window passed to the Predictor has exactly L rows
\* and W columns, L x W being the shape of window_0; also for L = 1.
C11_WindowShape ==
    \A k \in 1..Len(calls) :
        /\ Len(calls[k].in) = L0
        /\ \A r \in 1..Len(calls[k].in) : Len(calls[k].in[r]) = W0

C11_Witness ==
    /\ Len(calls) = MaxN
    /\ L0 = 1
    /\ Len(calls[MaxN].in) = 1
    /\ calls[MaxN].in # source[1].win

\* C12: at step 0 the Predictor is invoked on window_0 exactly as the source
\* supplies it, and pred_0 = unscale(Predictor(window_0)); for the Predictor
\* that echoes a fixed vector v, pred_0 = unscale(v).
C12_Step0Unmodified ==
    Len(calls) >= 1 =>
        /\ calls[1].in = source[1].win
        /\ y_pred[1] = Unscale(Model(pk, P, source[1].win))
        /\ pk = "echo" => y_pred[1] = Unscale([b \in 1..P |-> 60 + b])

C12_Witness ==
    /\ Len(calls) >= 1
    /\ pk = "echo"
    /\ L0 >= 2
    /\ source[1].win[1] # source[1].win[2]
    /\ y_pred[1] = [b \in 1..P |-> (60 + b) * ScaleStd + ScaleMean]
\* the size-weighted validation loss summed over all n batches, under
\* parameters p
RECURSIVE ValSum(_, _, _)
ValSum(p, n, k) ==
    IF k = 0 THEN 0
    ELSE ValSum(p, n, k - 1) + ValLossItem(p, k) * BatchSize(n, k)

\* the validation sum of epoch e, taken after the e * nTrain updates of the
\* epochs 1..e
ValTotal(e) == ValSum(e * nTrain, nVal, nVal)

\* C13: with a scheduler, scheduler.step is invoked exactly once per epoch,
\* after the whole validation phase of that epoch, with the accumulated
\* size-weighted validation sum not yet divided by the example count; what
\* is recorded in the validation history and reported to the trial is the
\* divided (mean) value.
C13_SchedulerMetric ==
    /\ ~hasScheduler => schedCalls = <<>>
    /\ hasScheduler =>
          /\ Len(schedCalls) =
                IF pc \in {"train_batch", "train_val", "train_sched"}
                THEN epoch - 1 ELSE epoch
          /\ Len(val_losses) <= Len(schedCalls)
    /\ \A k \in 1..Len(schedCalls) :
          /\ schedCalls[k].epoch = k
          /\ schedCalls[k].metric = ValTotal(k)
    /\ \A k \in 1..Len(val_losses) :
          val_losses[k] = [num |-> ValTotal(k), den |-> DatasetLen(nVal)]
    /\ \A k \in 1..Len(reports) : reports[k].value = val_losses[k]

C13_Witness ==
    /\ hasScheduler
    /\ hasTrial
    /\ nVal >= 2
    /\ Len(schedCalls) >= 2
    /\ Len(reports) >= 2
    /\ schedCalls[2].metric = reports[2].value.num
    /\ reports[2].value.den > 1

\* the phases of epoch e, in order
ExpectedPhases(e) ==
    <<<<e, "training">>, <<e, "validation">>>>
    \o (IF hasScheduler THEN <<<<e, "scheduler">>>> ELSE <<>>)
    \o (IF hasTrial THEN <<<<e, "report">>, <<e, "prune_check">>>> ELSE <<>>)
    \o (IF e % epoch_freq = 0 THEN <<<<e, "periodic">>>> ELSE <<>>)

RECURSIVE ExpectedUpTo(_)
ExpectedUpTo(n) ==
    IF n = 0 THEN <<>> ELSE ExpectedUpTo(n - 1) \o ExpectedPhases(n)

IsPrefix(a, b) == Len(a) <= Len(b) /\ SubSeq(b, 1, Len(a)) = a

\* C14: in every epoch the phases occur in the order Training, Validation,
\* Scheduler step (if present), Trial report then prune check (if a trial
\* is supplied), periodic report (if the epoch is a multiple of epoch_freq);
\* a run ends Completed after exactly num_epochs epochs or Pruned, and after
\* Pruned in epoch e no later phase occurs, epoch e's periodic report
\* included.
C14_PhaseOrder ==
    /\ IsPrefix(phases, ExpectedUpTo(num_epochs))
    /\ pc = "train_epoch" => phases = ExpectedUpTo(epoch)
    /\ pc = "completed" =>
          /\ epoch = num_epochs
          /\ phases = ExpectedUpTo(num_epochs)
          /\ Len(train_losses) = num_epochs
          /\ err = "none"
    /\ pc = "pruned" =>
          /\ hasTrial
          /\ epoch >= 1 /\ epoch <= num_epochs
          /\ phases[Len(phases)] = <<epoch, "prune_check">>
          /\ \A k \in 1..Len(phases) : phases[k] # <<epoch, "periodic">>

C14_Witness ==
    /\ pc = "pruned"
    /\ hasScheduler
    /\ epoch >= 2
    /\ epoch % epoch_freq = 0
    /\ epoch_freq >= 2
    /\ phases[Len(phases)] = <<epoch, "prune_check">>

\* C15: with a trial, trial.report is called exactly once in each epoch
\* reached, with the mean validation loss of that epoch and the 1-based
\* epoch number, and always before trial.should_prune() of that epoch.
C15_TrialReport ==
    /\ ~hasTrial => (reports = <<>> /\ pruneCalls = <<>>)
    /\ hasTrial =>
          Len(reports) =
             IF pc \in {"train_batch", "train_val", "train_sched",
                        "train_valrec", "train_trial"}
             THEN epoch - 1 ELSE epoch
    /\ \A k \in 1..Len(reports) :
          /\ reports[k].epoch = k
          /\ reports[k].value = [num |-> ValTotal(k), den |-> DatasetLen(nVal)]
    /\ Len(pruneCalls) <= Len(reports)
    /\ Len(reports) <= Len(pruneCalls) + 1
    /\ \A k \in 1..Len(pruneCalls) : pruneCalls[k].epoch = k

C15_Witness ==
    /\ hasTrial
    /\ pc = "train_prune"
    /\ Len(reports) = MaxEpochs
    /\ Len(pruneCalls) = MaxEpochs - 1
    /\ reports[MaxEpochs].epoch = MaxEpochs

\* C16: the validation phase performs no optimizer step and no parameter
\* update: the parameters at its end are those at its start, and
\* optimizer.step runs exactly once per training batch, never in validation.
C16_ValidationNoUpdate ==
    /\ params = Len(optSteps)
    /\ Len(optSteps) = Len(trainBatches)
    /\ \A k \in 1..Len(optSteps) : optSteps[k] = <<trainBatches[k], "training">>
    /\ Len(trainBatches) =
          IF pc = "train_batch" THEN (epoch - 1) * nTrain + tb
          ELSE epoch * nTrain
    /\ pc \in {"train_val", "train_sched"} => params = epoch * nTrain

C16_Witness ==
    /\ pc = "train_sched"
    /\ epoch >= 2
    /\ nVal = MaxBatches
    /\ vb = nVal
    /\ params = epoch * nTrain
    /\ nTrain >= 2
\* C17: a rollout leaves the source unchanged: no step changes any
\* (window_i, target_i) the source yields, window_0, which seeded the
\* maintained window, included.
C17_SourceUnchanged == [][source' = source]_vars

C17_Witness ==
    /\ RolloutReturned
    /\ N = MaxN
    /\ seq # source[1].win
    /\ source[1].win = calls[1].in

\* the row constructed at step k - 1 (the k-th invocation, k >= 2)
ExpectedRow(k) ==
    calls[k - 1].out \o LastCols(FinalRow(source[k].win), NumExog)

\* the rows of window_0 followed by the rows constructed up to invocation k
RowHistory(k) == source[1].win \o [m \in 1..(k - 1) |-> ExpectedRow(m + 1)]

LastRows(rows, n) == SubSeq(rows, Len(rows) - n + 1, Len(rows))

\* C18: at every step i >= 0 the window fed to the Predictor is the last L
\* rows of window_0's rows followed by new_row_1 .. new_row_i, in that
\* order; for 1 <= i < L these are rows i..L-1 of window_0 followed by the i
\* constructed rows, and for i >= L no row of window_0 is left.
C18_WindowIsHistoryTail ==
    \A k \in 1..Len(calls) :
        LET step == k - 1
        IN  /\ calls[k].in = LastRows(RowHistory(k), L0)
            /\ (step >= 1 /\ step < L0) =>
                  /\ SubSeq(calls[k].in, 1, L0 - step)
                        = SubSeq(source[1].win, step + 1, L0)
                  /\ \A r \in 1..step :
                        calls[k].in[L0 - step + r] = ExpectedRow(r + 1)
            /\ step >= L0 =>
                  \A r \in 1..L0 : calls[k].in[r] = ExpectedRow(k - L0 + r)

C18_Witness ==
    /\ Len(calls) > MaxL
    /\ L0 = MaxL
    /\ calls[2].in[1] = source[1].win[2]
    /\ \A r \in 1..L0, q \in 1..L0 : calls[Len(calls)].in[r] # source[1].win[q]

\* C19: over a source of length N >= 1 the source is read exactly once at
\* each index 0..N-1 in ascending order and the Predictor is invoked exactly
\* N times, the i-th invocation after the read of index i and before the
\* read of index i+1.
C19_ReadInferOrder ==
    /\ \A k \in 1..Len(trace) :
          trace[k] = IF k % 2 = 1 THEN <<"read", (k - 1) \div 2>>
                     ELSE <<"infer", (k \div 2) - 1>>
    /\ RolloutReturned =>
          /\ Len(trace) = 2 * N
          /\ Len(calls) = N

C19_Witness ==
    /\ RolloutReturned
    /\ N = MaxN
    /\ trace[Len(trace)] = <<"infer", MaxN - 1>>
    /\ trace[Len(trace) - 1] = <<"read", MaxN - 1>>
====
